---- MODULE Spec2Model ----
(***************************************************************************)
(* Model of "Curve fitting tutorial.ipynb": a notebook that simulates a    *)
(* noisy line, fits it with scipy.optimize.curve_fit and rebuilds the      *)
(* fitted line from the returned parameters.                               *)
(*                                                                         *)
(* The state is the kernel's namespace plus the position of the run (the   *)
(* cells are executed top to bottom).  Real numbers are modelled by        *)
(* integers.  curve_fit and np.random.normal are library calls whose code  *)
(* is not part of the notebook: the model keeps of them only what the      *)
(* notebook's own statements fix (what is assigned, and the shape the      *)
(* unpacking and indexing need) and leaves the values to choice.           *)
(***************************************************************************)
EXTENDS Integers, Sequences, FiniteSets

VARIABLES pc, xVariable, yMeasurements, pars, cov, m, c, yFit, c_guess, m_guess, p0, bound

vars == <<pc, xVariable, yMeasurements, pars, cov, m, c, yFit, c_guess, m_guess, p0, bound>>

(* ------------------------------ bounds -------------------------------- *)

\* Seeds of the unseeded global generator behind np.random.normal.
MaxSeed == 3
\* Largest magnitude of a standard-normal draw in the model.
ZMax == 1
\* Fitted parameters and covariance entries range over -ParamMax..ParamMax
\* and 0..CovMax.
ParamMax == 1
CovMax == 1
\* Number of seed digits the generator cycles through.
SeedDigits == 2

(* ------------------------- program constants -------------------------- *)

LinStart == 0
LinStop == 100
LinNum == 101
NoiseScale == 5
CGuess == 0
MGuess == 10

(* ------------------------------ values -------------------------------- *)

\* The value shown for an array or list name that is not bound yet; scalars
\* show 0.  bound is the set of names the kernel's namespace holds.
Unset == <<>>

ParamValues == (0 - ParamMax)..ParamMax
CovValues == 0..CovMax

\* linspace without its end point: num samples of step (stop-start)/num.
linspaceOpen(start, stop, num) ==
    [i \in 1..num |-> start + ((i - 1) * (stop - start)) \div num]

(* np.linspace(start, stop, num): num evenly spaced samples over the closed
   interval [start, stop]; sample i (from 0) is start + i*(stop-start)/(num-1).
   The division is exact for the notebook's arguments. *)
linspace(start, stop, num) ==
    [i \in 1..num |->
        IF num = 1 THEN start
        ELSE start + ((i - 1) * (stop - start)) \div (num - 1)]

\* Draws of one generator state are the digits of the seed in this base.
DrawBase == 2 * ZMax + 1

RECURSIVE Pow(_, _)
Pow(b, e) == IF e = 0 THEN 1 ELSE b * Pow(b, e - 1)

(* One standard-normal draw of the generator in state seed, for element i,
   bounded to -ZMax..ZMax: digit (i-1) mod SeedDigits of the seed, digit 0
   being a draw of 0, so that seed 0 is the noise-free sample. *)
StdDraw(seed, i) ==
    LET d == (seed \div Pow(DrawBase, (i - 1) % SeedDigits)) % DrawBase
    IN  IF d <= ZMax THEN d ELSE d - DrawBase

(* np.random.normal(loc, scale) with an array loc: one draw per element of
   loc, the result has loc's shape. *)
normal(loc, scale, seed) ==
    [i \in 1..Len(loc) |-> loc[i] + scale * StdDraw(seed, i)]

(* def yfunc(x,c,m): return m*x+c *)
yfunc(x, cc, mm) == mm * x + cc

(* The parameters yfunc declares after the independent variable, in order. *)
DeclaredParams == <<"c", "m">>

\* Position (from 1) of a declared parameter in pars and in p0.
Pos(name) == CHOOSE k \in 1..Len(DeclaredParams) : DeclaredParams[k] = name

(* What "pars,cov = curve_fit(...)" can bind: the unpacking needs a pair, the
   later pars[0], pars[1] need two parameters; cov is printed only. *)
FitPars == [1..2 -> ParamValues]
FitCov == {<<<<a, b>>, <<b, d>>>> : a \in CovValues, b \in CovValues, d \in CovValues}

(* ------------------------------ actions ------------------------------- *)

Init ==
    /\ pc = "linspace"
    /\ xVariable = Unset
    /\ yMeasurements = Unset
    /\ pars = Unset
    /\ cov = Unset
    /\ m = 0
    /\ c = 0
    /\ yFit = Unset
    /\ c_guess = 0
    /\ m_guess = 0
    /\ p0 = Unset
    /\ bound = {}

\* xVariable= np.linspace(0,100,101)
MakeX ==
    /\ pc = "linspace"
    /\ xVariable' = linspace(LinStart, LinStop, LinNum)
    /\ pc' = "noise"
    /\ bound' = bound \cup {"xVariable"}
    /\ UNCHANGED <<yMeasurements, pars, cov, m, c, yFit, c_guess, m_guess, p0>>

\* yMeasurements=(np.random.normal(xVariable,5))
MakeY ==
    /\ pc = "noise"
    /\ {"xVariable"} \subseteq bound
    /\ \E seed \in 0..MaxSeed :
          yMeasurements' = normal(xVariable, NoiseScale, seed)
    /\ pc' = "fit1"
    /\ bound' = bound \cup {"yMeasurements"}
    /\ UNCHANGED <<xVariable, pars, cov, m, c, yFit, c_guess, m_guess, p0>>

\* pars,cov=curve_fit(yfunc,xVariable,yMeasurements) returns
FitReturns ==
    /\ pc = "fit1"
    /\ {"xVariable", "yMeasurements"} \subseteq bound
    /\ \E p \in FitPars, v \in FitCov : pars' = p /\ cov' = v
    /\ pc' = "rebuild"
    /\ bound' = bound \cup {"pars", "cov"}
    /\ UNCHANGED <<xVariable, yMeasurements, m, c, yFit, c_guess, m_guess, p0>>

\* pars,cov=curve_fit(yfunc,xVariable,yMeasurements) raises: nothing is bound
\* and the run stops at this cell.
FitRaises ==
    /\ pc = "fit1"
    /\ {"xVariable", "yMeasurements"} \subseteq bound
    /\ pc' = "error"
    /\ UNCHANGED <<xVariable, yMeasurements, pars, cov, m, c, yFit, c_guess, m_guess, p0, bound>>

\* Rebuild with the two indices exchanged (m=pars[0]; c=pars[1]).
RebuildSwapped ==
    /\ pc = "rebuild"
    /\ {"pars", "xVariable"} \subseteq bound
    /\ m' = pars[1]
    /\ c' = pars[2]
    /\ yFit' = [i \in 1..Len(xVariable) |-> pars[1] * xVariable[i] + pars[2]]
    /\ pc' = "fit2"
    /\ bound' = bound \cup {"m", "c", "yFit"}
    /\ UNCHANGED <<xVariable, yMeasurements, pars, cov, c_guess, m_guess, p0>>

\* m=pars[1]; c=pars[0]; yFit=m*xVariable+c   (Python indexes from 0)
Rebuild ==
    /\ pc = "rebuild"
    /\ {"pars", "xVariable"} \subseteq bound
    /\ m' = pars[2]
    /\ c' = pars[1]
    /\ yFit' = [i \in 1..Len(xVariable) |-> pars[2] * xVariable[i] + pars[1]]
    /\ pc' = "fit2"
    /\ bound' = bound \cup {"m", "c", "yFit"}
    /\ UNCHANGED <<xVariable, yMeasurements, pars, cov, c_guess, m_guess, p0>>

\* c_guess=0; m_guess=10; pars,cov=curve_fit(...,p0=[c_guess,m_guess]) returns
GuessFitReturns ==
    /\ pc = "fit2"
    /\ {"xVariable", "yMeasurements"} \subseteq bound
    /\ c_guess' = CGuess
    /\ m_guess' = MGuess
    /\ p0' = <<CGuess, MGuess>>
    /\ \E p \in FitPars, v \in FitCov : pars' = p /\ cov' = v
    /\ pc' = "done"
    /\ bound' = bound \cup {"c_guess", "m_guess", "pars", "cov"}
    /\ UNCHANGED <<xVariable, yMeasurements, m, c, yFit>>

\* the same cell when curve_fit raises: the guesses are bound, pars and cov
\* keep the first fit's values.
GuessFitRaises ==
    /\ pc = "fit2"
    /\ {"xVariable", "yMeasurements"} \subseteq bound
    /\ c_guess' = CGuess
    /\ m_guess' = MGuess
    /\ p0' = <<CGuess, MGuess>>
    /\ pc' = "error"
    /\ bound' = bound \cup {"c_guess", "m_guess"}
    /\ UNCHANGED <<xVariable, yMeasurements, pars, cov, m, c, yFit>>

Next ==
    \/ MakeX
    \/ MakeY
    \/ FitReturns
    \/ FitRaises
    \/ Rebuild
    \/ GuessFitReturns
    \/ GuessFitRaises

Spec == Init /\ [][Next]_vars

(* ------------------------------ typing -------------------------------- *)

TypeOK ==
    /\ pc \in {"linspace", "noise", "fit1", "rebuild", "fit2", "done", "error"}
    /\ pars \in FitPars \cup {Unset}
    /\ cov \in FitCov \cup {Unset}
    /\ m \in ParamValues
    /\ c \in ParamValues
    /\ ("pars" \in bound) = (pars # Unset)
    /\ ("yFit" \in bound) => Len(yFit) = Len(xVariable)

(* ------------------------------ claims -------------------------------- *)

(* C11: parameter positions follow yfunc's declared list (c, then m).  Right
   after the reconstruction cell, the notebook's c and m are the entries of
   pars at the declared positions of c and m, and the rebuilt line yFit is
   yfunc(x, pars[0], pars[1]) at every x of xVariable; and the guess list p0
   holds c_guess and m_guess at those same positions. *)
C11_ParamOrder ==
    /\ pc = "fit2" =>
          /\ c = pars[Pos("c")]
          /\ m = pars[Pos("m")]
          /\ Len(yFit) = Len(xVariable)
          /\ \A i \in 1..Len(xVariable) :
                yFit[i] = yfunc(xVariable[i], pars[1], pars[2])
    /\ "c_guess" \in bound =>
          /\ p0[Pos("c")] = c_guess
          /\ p0[Pos("m")] = m_guess

\* The reconstruction has run on a result whose two parameters differ.
C11_Witness == pc = "fit2" /\ "yFit" \in bound /\ pars[1] # pars[2]

\* xVariable's values are evenly spaced and lie in [LinStart, LinStop],
\* end points included.
EvenlySpaced(xs) ==
    /\ Len(xs) >= 2
    /\ xs[1] = LinStart
    /\ xs[Len(xs)] = LinStop
    /\ \A i \in 1..(Len(xs) - 1) : xs[i + 1] - xs[i] = xs[2] - xs[1]
    /\ \A i \in 1..Len(xs) : LinStart <= xs[i] /\ xs[i] <= LinStop

====
